---- MODULE Spec2Model ----
(***************************************************************************)
(* Model of src/src/main.rs: the modular multiplicative inverse of a under *)
(* Mod b by the Extended Euclidean Algorithm, with its helpers             *)
(* is_relatively_prime and gcd.                                            *)
(*                                                                         *)
(* The program's integers are u64 and i64.  The model keeps the two's      *)
(* complement layout but scales the width down to Width bits: an unsigned  *)
(* value lives in 0 .. 2^Width - 1, a signed one in -2^(Width-1) ..        *)
(* 2^(Width-1) - 1.  `as` casts wrap silently.  A signed +, - or * whose   *)
(* result does not fit panics when the build has overflow checks (the      *)
(* debug profile) and wraps when it has not (the release profile); the     *)
(* profile is chosen once, before the call.                                *)
(***************************************************************************)
EXTENDS Integers, Sequences, FiniteSets, TLC

\* scaled-down bit width of u64 / i64
Width == 6

RECURSIVE Pow2(_)
Pow2(n) == IF n = 0 THEN 1 ELSE 2 * Pow2(n - 1)

\* u64::MAX and the i64 range, at the model's width
U64Max == Pow2(Width) - 1
I64Min == 0 - Pow2(Width - 1)
I64Max == Pow2(Width - 1) - 1

\* does a mathematical value fit an i64
FitsI64(v) == I64Min <= v /\ v <= I64Max

\* two's complement wrap of a mathematical value into i64 (`as i64`, and
\* the result of wrapping arithmetic)
AsI64(v) ==
    LET m == v % Pow2(Width)
    IN  IF m > I64Max THEN m - Pow2(Width) ELSE m

\* `as u64` of a signed value
AsU64(v) == v % Pow2(Width)

VARIABLES
    fn,               \* the function called from outside
    overflow_checks,  \* TRUE: debug profile, FALSE: release profile
    a, b,             \* the arguments of the call
    pc,               \* position in the called function
    stack,            \* the frames <<a, b>> of the gcd recursion, innermost last
    gret,             \* the value a gcd frame has returned
    x, y, t,          \* i64 accumulators
    A, B, q, r,       \* u64 registers: dividend, divisor, quotient, remainder
    ret,              \* the value returned to the caller
    lossy             \* some cast or wrapping operation so far lost its value

vars == <<fn, overflow_checks, a, b, pc, stack, gret, x, y, t, A, B, q, r, ret, lossy>>

regs == <<x, y, t, A, B, q, r>>
args == <<fn, overflow_checks, a, b>>

Functions == {"modular_multiplicative_inverse", "gcd"}

TypeOK ==
    /\ fn \in Functions
    /\ overflow_checks \in BOOLEAN
    /\ a \in 0..U64Max /\ b \in 0..U64Max
    /\ pc \in {"entry", "gate", "gcd", "gcdret", "loop", "norm", "done", "panic", "overflow"}
    /\ stack \in Seq((0..U64Max) \X (0..U64Max))
    /\ gret \in 0..U64Max
    /\ x \in I64Min..I64Max /\ y \in I64Min..I64Max /\ t \in I64Min..I64Max
    /\ A \in 0..U64Max /\ B \in 0..U64Max /\ q \in 0..U64Max /\ r \in 0..U64Max
    /\ ret \in 0..U64Max
    /\ lossy \in BOOLEAN

InitCommon ==
    /\ overflow_checks \in BOOLEAN
    /\ a \in 0..U64Max
    /\ b \in 0..U64Max
    /\ pc = "entry"
    /\ stack = <<>>
    /\ gret = 0
    /\ x = 0 /\ y = 0 /\ t = 0
    /\ A = 0 /\ B = 0 /\ q = 0 /\ r = 0
    /\ ret = 0
    /\ lossy = FALSE

\* a call of modular_multiplicative_inverse(a, b)
Init == fn = "modular_multiplicative_inverse" /\ InitCommon

\* a call of gcd(a, b)
InitGcd == fn = "gcd" /\ InitCommon

----------------------------------------------------------------------------
(* gcd *)

\* the recursive definition, as a function of its arguments
RECURSIVE gcd(_, _)
gcd(ga, gb) == IF gb = 0 THEN ga ELSE gcd(gb, ga % gb)

Top == stack[Len(stack)]

\* mutants of RecursiveArgs: the quotient for the remainder; the arguments
\* in the wrong order
RecursiveArgsQuotient(ga, gb) == <<gb, ga \div gb>>
RecursiveArgsSwapped(ga, gb) == <<ga % gb, gb>>

\* the arguments of the recursive call made by a frame gcd(ga, gb), gb # 0
RecursiveArgs(ga, gb) == <<gb, ga % gb>>

\* gcd is called from outside
EnterGcd ==
    /\ fn = "gcd" /\ pc = "entry"
    /\ stack' = <<<<a, b>>>>
    /\ pc' = "gcd"
    /\ UNCHANGED <<args, gret, regs, ret, lossy>>

\* if b == 0 { return a; }
GcdBase ==
    /\ pc = "gcd" /\ Top[2] = 0
    /\ gret' = Top[1]
    /\ stack' = SubSeq(stack, 1, Len(stack) - 1)
    /\ pc' = "gcdret"
    /\ UNCHANGED <<args, regs, ret, lossy>>

\* else { return gcd(b, a % b); }: the call
GcdRecurse ==
    /\ pc = "gcd" /\ Top[2] # 0
    /\ stack' = Append(stack, RecursiveArgs(Top[1], Top[2]))
    /\ UNCHANGED <<args, pc, gret, regs, ret, lossy>>

\* else { return gcd(b, a % b); }: the callee's value is returned unchanged
GcdUnwind ==
    /\ pc = "gcdret" /\ stack # <<>>
    /\ stack' = SubSeq(stack, 1, Len(stack) - 1)
    /\ UNCHANGED <<args, pc, gret, regs, ret, lossy>>

\* the outermost gcd frame returns to the outside caller
GcdDone ==
    /\ fn = "gcd" /\ pc = "gcdret" /\ stack = <<>>
    /\ ret' = gret
    /\ pc' = "done"
    /\ UNCHANGED <<args, stack, gret, regs, lossy>>

----------------------------------------------------------------------------
(* modular_multiplicative_inverse *)

\* mutant of IsModulusOne: the test is made against 0
IsModulusOneZero(mb) == mb = 0

\* the degenerate modulus: if b == 1
IsModulusOne(mb) == mb = 1

\* if b == 1 { return 0; }
CheckModulusOne ==
    /\ fn = "modular_multiplicative_inverse" /\ pc = "entry"
    /\ IF IsModulusOne(b)
         THEN ret' = 0 /\ pc' = "done"
         ELSE ret' = ret /\ pc' = "gate"
    /\ UNCHANGED <<args, stack, gret, regs, lossy>>

\* is_relatively_prime(a, b) calls gcd(a, b)
GateCall ==
    /\ pc = "gate"
    /\ stack' = <<<<a, b>>>>
    /\ pc' = "gcd"
    /\ UNCHANGED <<args, gret, regs, ret, lossy>>

\* mutant of NotRelativelyPrime: only a gcd above 1 fails the gate
NotRelativelyPrimeAbove(g) == g > 1

\* !is_relatively_prime(a, b), given the value g that gcd(a, b) returned
NotRelativelyPrime(g) == ~(g = 1)

\* gcd(a, b) == 1 decides the gate: panic, or declare the registers
GateDecide ==
    /\ fn = "modular_multiplicative_inverse" /\ pc = "gcdret" /\ stack = <<>>
    /\ IF NotRelativelyPrime(gret)
         THEN pc' = "panic" /\ UNCHANGED regs
         ELSE /\ pc' = "loop"
              /\ x' = 0 /\ y' = 1 /\ t' = 0
              /\ A' = b /\ B' = a
              /\ q' = 0 /\ r' = 0
    /\ UNCHANGED <<args, stack, gret, ret, lossy>>

\* the operands and results of t = x - y * q as i64, as the hardware sees them
Quot == A \div B
Rem == A % B
QCast == AsI64(Quot)
Prod == y * QCast

\* mutant of Diff: the product is added
DiffAdded == x + AsI64(Prod)

Diff == x - AsI64(Prod)
IterOverflows == ~FitsI64(Prod) \/ ~FitsI64(Diff)
IterLossy == QCast # Quot \/ IterOverflows

\* mutant of ShiftA: A keeps its value
ShiftAKept == A

\* the shifting: what A, B, x take from the previous row
ShiftA == B
ShiftB == Rem
ShiftX == y

\* one iteration of while B > 0 { ... }
LoopIter ==
    /\ pc = "loop" /\ B > 0
    /\ q' = Quot
    /\ r' = Rem
    /\ lossy' = (lossy \/ IterLossy)
    /\ IF overflow_checks /\ IterOverflows
         THEN /\ pc' = "overflow"
              /\ UNCHANGED <<x, y, t, A, B>>
         ELSE /\ t' = AsI64(Diff)
              /\ A' = ShiftA
              /\ B' = ShiftB
              /\ x' = ShiftX
              /\ y' = AsI64(Diff)
              /\ pc' = pc
    /\ UNCHANGED <<args, stack, gret, ret>>

\* the loop condition B > 0 fails
LoopExit ==
    /\ pc = "loop" /\ ~(B > 0)
    /\ pc' = "norm"
    /\ UNCHANGED <<args, stack, gret, regs, ret, lossy>>

\* b as i64 + x
NormSum == AsI64(b) + x

\* if x < 0 { x = b as i64 + x; }  return x as u64;
Normalize ==
    /\ pc = "norm"
    /\ IF x < 0
         THEN /\ lossy' = (lossy \/ AsI64(b) # b \/ ~FitsI64(NormSum))
              /\ IF overflow_checks /\ ~FitsI64(NormSum)
                   THEN pc' = "overflow" /\ UNCHANGED <<x, ret>>
                   ELSE /\ x' = AsI64(NormSum)
                        /\ ret' = AsU64(AsI64(NormSum))
                        /\ pc' = "done"
         ELSE /\ ret' = AsU64(x)
              /\ pc' = "done"
              /\ UNCHANGED <<x, lossy>>
    /\ UNCHANGED <<args, stack, gret, y, t, A, B, q, r>>

----------------------------------------------------------------------------

NextGcd ==
    \/ EnterGcd
    \/ GcdBase
    \/ GcdRecurse
    \/ GcdUnwind
    \/ GcdDone

Next ==
    \/ CheckModulusOne
    \/ GateCall
    \/ GcdBase
    \/ GcdRecurse
    \/ GcdUnwind
    \/ GateDecide
    \/ LoopIter
    \/ LoopExit
    \/ Normalize

Spec == Init /\ [][Next]_vars

\* the program is sequential and never blocks: a step that can be taken is taken
GcdSpec == InitGcd /\ [][NextGcd]_vars /\ WF_vars(NextGcd)

----------------------------------------------------------------------------
(* Mathematical notions the properties are stated with *)

Max(m, n) == IF m >= n THEN m ELSE n
Abs(v) == IF v < 0 THEN 0 - v ELSE v

CommonDivisors(m, n) == {d \in 1..Max(m, n) : m % d = 0 /\ n % d = 0}

\* the largest integer dividing both m and n; 0 when both are 0
GreatestCommonDivisor(m, n) ==
    IF m = 0 /\ n = 0
      THEN 0
      ELSE CHOOSE d \in CommonDivisors(m, n) : \A e \in CommonDivisors(m, n) : e <= d

\* no step is left to take
Halted == pc \in {"done", "panic", "overflow"}

\* control is inside or past the extended-Euclid loop
PastGate == pc \in {"loop", "norm", "overflow"} \/ (pc = "done" /\ b # 1)

----------------------------------------------------------------------------
(* gcd, checked under GcdSpec *)

\* C4: for all a >= 0 and b >= 0, gcd(a, b) returns the greatest common
\* divisor of a and b, with gcd(a, 0) = a, gcd(0, b) = b and gcd(0, 0) = 0.
C4_GcdIsGreatestCommonDivisor ==
    (fn = "gcd" /\ pc = "done") =>
        /\ ret = GreatestCommonDivisor(a, b)
        /\ (b = 0 => ret = a)
        /\ (a = 0 => ret = b)

C4_Witness == fn = "gcd" /\ pc = "done" /\ a = 12 /\ b = 18 /\ ret = 6

\* C7: the recursion of gcd(a, b) terminates: the second argument of each
\* recursive call is strictly smaller than the second argument of the call
\* that made it and never below 0, so the base case b = 0 is reached and
\* the call returns.
C7_GcdRecursionTerminates ==
    /\ [][Len(stack') > Len(stack) /\ stack # <<>> =>
             /\ stack'[Len(stack')][2] < stack[Len(stack)][2]
             /\ stack'[Len(stack')][2] >= 0]_vars
    /\ [](pc = "gcd" => <>(pc = "gcd" /\ stack[Len(stack)][2] = 0))
    /\ <>(pc = "done")

C7_Witness == fn = "gcd" /\ pc = "gcd" /\ Len(stack) >= 4 /\ Top[2] = 0

----------------------------------------------------------------------------
(* modular_multiplicative_inverse, checked under Spec *)

\* C2: for every (a, b) with b # 1 and gcd(a, b) # 1 (every a = 0 with
\* b # 1 included), the call ends in the panic of the gate, before the
\* loop is entered, and never returns a value.
C2_NonCoprimePanicsBeforeLoop ==
    (b # 1 /\ GreatestCommonDivisor(a, b) # 1) =>
        /\ pc \in {"entry", "gate", "gcd", "gcdret", "panic"}
        /\ (Halted => pc = "panic")
        /\ (~Halted => ENABLED Next)
        /\ regs = <<0, 0, 0, 0, 0, 0, 0>>
        /\ ret = 0

C2_Witness == pc = "panic" /\ a = 4 /\ b = 8

\* C3: for every a >= 0, modular_multiplicative_inverse(a, 1) returns 0
\* immediately: neither the coprimality check nor an iteration of the loop
\* is executed.
C3_ModulusOneReturnsZero ==
    (fn = "modular_multiplicative_inverse" /\ b = 1) =>
        /\ pc \in {"entry", "done"}
        /\ (pc = "done" => ret = 0)
        /\ stack = <<>> /\ gret = 0
        /\ regs = <<0, 0, 0, 0, 0, 0, 0>>

C3_Witness == pc = "done" /\ b = 1 /\ a = 7 /\ ret = 0

\* C1: for every (a, b) with b >= 1 and gcd(a, b) = 1, the call returns a
\* value r with 0 <= r < b and (a * r) mod b = 1 mod b; (3, 5) gives 2 and
\* (7, 26) gives 15.
C1_ReturnsInverse ==
    (b >= 1 /\ GreatestCommonDivisor(a, b) = 1 /\ Halted) =>
        /\ pc = "done"
        /\ 0 <= ret /\ ret < b
        /\ (a * ret) % b = 1 % b
        /\ (a = 3 /\ b = 5 => ret = 2)
        /\ (a = 7 /\ b = 26 => ret = 15)

\* C5: at every iteration boundary of the loop,
\* x * a_original + y * b_original = current dividend A.
C5_BezoutWithY == pc = "loop" => x * a + y * b = A

\* C5 as amended: at every iteration boundary x * a is congruent to the
\* dividend A modulo b, that is x * a + k * b = A for some integer k.
C5_BezoutModB ==
    pc = "loop" => IF b = 0 THEN x * a = A ELSE (A - x * a) % b = 0

C5_Witness == pc = "loop" /\ a = 3 /\ b = 5 /\ A = 2 /\ B = 1 /\ x = 0 - 1 /\ y = 2

\* C6: for every input that passes the gate the loop is left exactly when
\* the divisor B is 0, never before, and then the dividend A is gcd(a, b).
C6_LoopExitsAtZeroDivisor ==
    (PastGate /\ pc # "loop") => (B = 0 /\ A = gcd(a, b))

\* C8: the loop starts from (A, B, x, y) = (b, a, 0, 1) and each iteration
\* replaces (A, B, x, y) by (B, A mod B, y, x - y * (A div B)); for a = 3,
\* b = 5 the rows are (5,3,0,1), (3,2,1,-1), (2,1,-1,2), (1,0,2,-5) and
\* the value returned is 2.
C8_Rows == <<  <<5, 3, 0, 1>>, <<3, 2, 1, 0 - 1>>, <<2, 1, 0 - 1, 2>>, <<1, 0, 2, 0 - 5>>  >>

C8_IterationStep ==
    /\ [][pc = "gcdret" /\ pc' = "loop" => <<A', B', x', y'>> = <<b, a, 0, 1>>]_vars
    /\ [][pc = "loop" /\ B > 0 =>
            <<A', B', x', y'>> = <<B, A % B, y, x - y * (A \div B)>>]_vars
    /\ [][a = 3 /\ b = 5 /\ pc = "loop" /\ B > 0 =>
            \E i \in 1..3 : <<A, B, x, y>> = C8_Rows[i]
                            /\ <<A', B', x', y'>> = C8_Rows[i + 1]]_vars
    /\ [](a = 3 /\ b = 5 /\ pc = "done" => ret = 2)

\* C9: for every a >= 0 and b >= 2 that pass the gate, at every iteration
\* boundary (x * a) mod b = A mod b and (y * a) mod b = B mod b, so that at
\* loop exit (x * a) mod b = gcd(a, b) mod b = 1.
C9_CongruencesModB ==
    (b >= 2 /\ pc \in {"loop", "norm"}) =>
        /\ (x * a) % b = A % b
        /\ (y * a) % b = B % b
        /\ (pc = "norm" => (x * a) % b = 1)

\* C10: for every coprime (a, b) with b >= 2, throughout the loop x, y, t
\* and the product y * q have absolute value <= b, x at loop exit satisfies
\* -b < x < b, and A and B never exceed max(a, b); whenever b < 2^(w-1) no
\* signed overflow and no lossy cast occurs.
C10_AccumulatorsBounded ==
    (b >= 2 /\ PastGate) =>
        /\ Abs(x) <= b /\ Abs(y) <= b /\ Abs(t) <= b
        /\ (pc = "loop" /\ B > 0 => Abs(Prod) <= b)
        /\ (pc = "norm" => 0 - b < x /\ x < b)
        /\ A <= Max(a, b) /\ B <= Max(a, b)
        /\ (b < Pow2(Width - 1) => ~lossy /\ pc # "overflow")

C10_Witness == pc = "norm" /\ a = 7 /\ b = 26 /\ x = 0 - 11 /\ y = 26 /\ ~lossy

====
